---- MODULE Spec2Model ----
(***************************************************************************)
(* FreightParse API (src/main.py): API-key check, in-memory sliding-window *)
(* rate limiter, upload text extraction, model call, reply normalisation   *)
(* and response validation.                                                *)
(*                                                                         *)
(* Time is time.time() in whole ticks.  The specifications share the       *)
(* operators that model the functions of main.py:                          *)
(*   SpecRate  calls of check_rate_limit on the module-level table         *)
(*   Spec      the six parse routes, one request handled at a time         *)
(*   SpecConc  requests interleaved at the await points of the handlers    *)
(*   SpecNorm  the reply normaliser of parse_document on reply texts       *)
(*   SpecBind  the response models built from the recovered JSON object    *)
(*   SpecAnyClock  SpecRate with a clock that also jumps back and forth    *)
(*   SpecClient  get_client called again and again while the environment   *)
(*             changes                                                     *)
(***************************************************************************)
EXTENDS Integers, Sequences, FiniteSets, TLC

VARIABLES
    RATE_LIMIT,         \* int(os.getenv("RATE_LIMIT_REQUESTS", "60"))
    RATE_WINDOW,        \* int(os.getenv("RATE_LIMIT_WINDOW", "60"))
    RAPIDAPI_SECRET,    \* os.getenv("RAPIDAPI_PROXY_SECRET", "")
    INTERNAL_API_KEYS,  \* set(filter(None, os.getenv("API_KEYS", ...).split(",")))
    ANTHROPIC_API_KEY,  \* os.getenv("ANTHROPIC_API_KEY"), "" when unset or empty
    rate_store,         \* dict[str, list[float]]: a function on the keys present
    client_cache,       \* the lru_cache of get_client: "empty" or "client"
    clients,            \* history: the get_client calls, and what the last one did
    clock,              \* time.time()
    call,               \* the last check_rate_limit call: key, now, before, status
    admitted,           \* history: per key, the timestamps of the admitted calls
    ncalls,             \* history: per key, the number of check_rate_limit calls
    req,                \* Spec: the request being handled: what it presented, what was done
    fresh,              \* history: per credential, admissions still inside the window
    reqs,               \* SpecConc: the requests in flight
    doc,                \* SpecNorm: how the reply text was put together
    raw,                \* SpecNorm: the model's reply text
    result              \* SpecNorm: what parse_document did with it

vars == <<RATE_LIMIT, RATE_WINDOW, RAPIDAPI_SECRET, INTERNAL_API_KEYS,
          ANTHROPIC_API_KEY, rate_store, client_cache, clients, clock, call,
          admitted,
          ncalls, req, fresh, reqs, doc, raw, result>>

config == <<RATE_LIMIT, RATE_WINDOW, RAPIDAPI_SECRET, INTERNAL_API_KEYS>>

(***************************************************************************)
(* Bounds of the model.                                                    *)
(***************************************************************************)
MaxLimit == 2
MaxWindow == 2
MaxTime == 3
MaxCalls == 4
ServerLimit == 1
ServerWindow == 1
ServerTime == 1
MaxInFlight == 2
MaxRaw == 4
MaxMembers == 2
MaxProse == 1
MaxAbsent == 2
MaxGets == 10

\* The identities verify_api_key returns and the handlers pass to check_rate_limit.
Identities == {"rapidapi", "direct"}

\* int() of the environment accepts negative numbers and zero as well.
RateLimitValues == (0 - 1)..MaxLimit
RateWindowValues == 0..MaxWindow

NoCall == [key |-> "", now |-> 0, before |-> <<>>, status |-> 0]
EmptyStore == [k \in {} |-> <<>>]

(***************************************************************************)
(* check_rate_limit                                                        *)
(***************************************************************************)
\* rate_store.setdefault(key, [])
Hits(store, key) == IF key \in DOMAIN store THEN store[key] ELSE <<>>

\* [t for t in hits if now - t < RATE_WINDOW]
Fresh(t, now) == now - t < RATE_WINDOW

Pruned(hits, now) == SelectSeq(hits, LAMBDA t : Fresh(t, now))

AboveCeiling(hits) == Len(hits) > RATE_LIMIT

\* len(hits) >= RATE_LIMIT
AtCeiling(hits) == Len(hits) >= RATE_LIMIT

Put(store, key, hits) ==
    [k \in DOMAIN store \cup {key} |-> IF k = key THEN hits ELSE store[k]]

RateStoreAppends(store, key, now) ==
    Put(store, key, Append(Pruned(Hits(store, key), now), now))

\* How often the timestamp t is in the list.
Count(hits, t) == Cardinality({i \in DOMAIN hits : hits[i] = t})

\* The status check_rate_limit ends with: 429 raised, or 0 for a plain return.
RateStatus(store, key, now) ==
    IF AtCeiling(Pruned(Hits(store, key), now)) THEN 429 ELSE 0

\* The table after check_rate_limit(key) at time now: the list is pruned in
\* place in both cases, and now is appended unless 429 is raised.
RateStoreAfter(store, key, now) ==
    LET hits == Pruned(Hits(store, key), now)
    IN  IF AtCeiling(hits) THEN Put(store, key, hits)
                         ELSE Put(store, key, Append(hits, now))

(***************************************************************************)
(* parse_document: the reply normaliser.  A text is a sequence of tokens:  *)
(* "{" "}" "," are themselves, "k" is one well-shaped member ("key":       *)
(* value) of an object, "b" one member whose value has the wrong shape,    *)
(* "1" a JSON number, "x" a word of prose, " " and the newline white space *)
(* and "fence" the marker of three backquotes.                             *)
(***************************************************************************)
Fence == "fence"
NL == "\n"
White == {" ", NL}
Members == {"k", "b"}
Alphabet == {"{", "}", ",", "k", "b", "1", "x", " ", NL, Fence}

RECURSIVE LStrip(_)
LStrip(s) ==
    IF s = <<>> THEN s
    ELSE IF Head(s) \in White THEN LStrip(Tail(s)) ELSE s

RECURSIVE RStrip(_)
RStrip(s) ==
    IF s = <<>> THEN s
    ELSE IF s[Len(s)] \in White THEN RStrip(SubSeq(s, 1, Len(s) - 1)) ELSE s

\* str.strip()
Strip(s) == RStrip(LStrip(s))

\* str.find(c) and str.rfind(c): the 0-based index, or -1.
Find(s, c) ==
    IF \E i \in DOMAIN s : s[i] = c
    THEN (CHOOSE i \in DOMAIN s : s[i] = c /\ \A j \in 1..(i - 1) : s[j] # c) - 1
    ELSE 0 - 1

RFindShort(s, c) ==
    IF \E i \in DOMAIN s : s[i] = c
    THEN (CHOOSE i \in DOMAIN s : s[i] = c /\ \A j \in (i + 1)..Len(s) : s[j] # c) - 2
    ELSE 0 - 1

RFind(s, c) ==
    IF \E i \in DOMAIN s : s[i] = c
    THEN (CHOOSE i \in DOMAIN s : s[i] = c /\ \A j \in (i + 1)..Len(s) : s[j] # c) - 1
    ELSE 0 - 1

\* s[start:end] for 0 <= start < end <= len(s)
Slice(s, start, end) == SubSeq(s, start + 1, end)

\* str.split("\n")
RECURSIVE Split(_)
Split(s) ==
    LET i == Find(s, NL)
    IN  IF i < 0 THEN <<s>>
        ELSE <<Slice(s, 0, i)>> \o Split(SubSeq(s, i + 2, Len(s)))

\* "\n".join(lines)
RECURSIVE Join(_)
Join(lines) ==
    IF lines = <<>> THEN <<>>
    ELSE IF Len(lines) = 1 THEN lines[1]
    ELSE lines[1] \o <<NL>> \o Join(Tail(lines))

\* str.startswith(<three backquotes>)
StartsWithFence(s) == s # <<>> /\ s[1] = Fence

\* [l for l in lines if not l.strip().startswith(<three backquotes>)]
DropFenceLines(lines) == SelectSeq(lines, LAMBDA l : ~StartsWithFence(Strip(l)))

\* cleaned = raw.strip(), then the fence lines are dropped when it starts with one.
Cleaned(text) ==
    LET c == Strip(text)
    IN  IF StartsWithFence(c) THEN Join(DropFenceLines(Split(c))) ELSE c

\* json.loads: white space may stand between the tokens of a document; what is
\* left must be a number, or an object of comma-separated members.
Unspaced(s) == SelectSeq(s, LAMBDA c : c \notin White)

IsObject(t) ==
    /\ Len(t) >= 2
    /\ t[1] = "{"
    /\ t[Len(t)] = "}"
    /\ \/ Len(t) = 2
       \/ /\ Len(t) % 2 = 1
          /\ \A i \in 2..(Len(t) - 1) :
                IF i % 2 = 0 THEN t[i] \in Members ELSE t[i] = ","

MembersOf(t) == [i \in 1..((Len(t) - 1) \div 2) |-> t[2 * i]]

\* The value json.loads returns, or "JSONDecodeError".
JsonLoads(s) ==
    LET t == Unspaced(s)
    IN  IF t = <<"1">> THEN [kind |-> "data", type |-> "number"]
        ELSE IF IsObject(t)
             THEN [kind |-> "data", type |-> "object", members |-> MembersOf(t)]
             ELSE [kind |-> "JSONDecodeError"]

HTTP502 == [kind |-> "HTTPException", status |-> 502]

\* What parse_document does with the reply text call_claude returned: the value
\* it returns or the exception it raises.
Normalize(text) ==
    LET cleaned == Cleaned(text)
        direct == JsonLoads(cleaned)
        start == Find(cleaned, "{")
        end == RFind(cleaned, "}") + 1
    IN  IF direct.kind = "data" THEN direct
        ELSE IF start >= 0 /\ end > start
             THEN JsonLoads(Slice(cleaned, start, end))
             ELSE HTTP502

\* time.time() moves on.
Tick(max) ==
    /\ clock < max
    /\ clock' = clock + 1

(***************************************************************************)
(* verify_api_key                                                          *)
(***************************************************************************)
\* Security(API_KEY_HEADER) with auto_error=False gives None for a request
\* without the header; headers.get("X-API-Key", "") gives "" without it.
None == "None"
SecretHeaders == {None, "", "s3cret"}
KeyHeaders == {"", "key-a", "key-b", "key-x"}

verify_any_secret(rapidapi_secret, direct_key) ==
    IF rapidapi_secret = RAPIDAPI_SECRET THEN "rapidapi"
    ELSE IF direct_key \in INTERNAL_API_KEYS THEN "direct"
    ELSE "401"

\* The identity returned, or "401" for the HTTPException raised.
verify_api_key(rapidapi_secret, direct_key) ==
    IF RAPIDAPI_SECRET # "" /\ rapidapi_secret = RAPIDAPI_SECRET THEN "rapidapi"
    ELSE IF direct_key \in INTERNAL_API_KEYS THEN "direct"
    ELSE "401"

(***************************************************************************)
(* get_client, behind lru_cache: a client once built is returned again; a  *)
(* RuntimeError is not cached.                                             *)
(***************************************************************************)
ClientBuilt(cache, env) == cache = "client" \/ env # ""

CacheNothing(cache, env) == "empty"

\* The cache after the call: lru_cache keeps a returned client and keeps
\* nothing of a call that raised.
CacheAfter(cache, env) == IF ClientBuilt(cache, env) THEN "client" ELSE "empty"

NoClients == [gets |-> 0, failed |-> 0, built |-> 0, last |-> "none"]

(***************************************************************************)
(* The requests.  A text body is its length; an uploaded file is its size, *)
(* its declared content type, its file name and what its bytes are.        *)
(***************************************************************************)
TextRoutes == {"/parse-bol", "/parse-freight-invoice", "/parse-packing-list"}
UploadRoutes == {"/parse-bol/upload", "/parse-freight-invoice/upload",
                 "/parse-packing-list/upload"}

MIN_TEXT == 20
MAX_TEXT == 50000
TextLengths == {MIN_TEXT - 1, MIN_TEXT, MAX_TEXT, MAX_TEXT + 1}

\* Field(..., min_length=20, max_length=50000) of the three request models
BodyValid(length) == MIN_TEXT <= length /\ length <= MAX_TEXT

SUPPORTED_MIME_TYPES ==
    {"application/pdf", "text/plain", "text/csv", "image/png", "image/jpeg",
     "image/webp", "image/gif"}

MAX_FILE_SIZE == 10 * 1024 * 1024

ContentTypes ==
    SUPPORTED_MIME_TYPES \cup {"text/html", "image/bmp", "application/octet-stream", ""}

\* A file name is its stem and its extension; <<>> is no file name.
Filenames == {<<>>, <<"bol", ".txt">>, <<"BOL", ".PDF">>, <<"bol", ".bin">>}

\* What the bytes are: nothing, white space, words, a PDF with a text layer, a
\* PDF of scanned pages, a picture.
Bodies == {"empty", "spaces", "words", "pdf-text", "pdf-scan", "picture"}

Files ==
    [size : {0}, body : {"empty"}, content_type : ContentTypes, filename : Filenames]
    \cup
    [size : {1}, body : Bodies \ {"empty"}, content_type : ContentTypes,
     filename : Filenames]
    \cup
    [size : {MAX_FILE_SIZE, MAX_FILE_SIZE + 1}, body : {"words"},
     content_type : ContentTypes, filename : Filenames]

\* str.lower() on the tokens of a file name
LowerToken(w) ==
    CASE w = "BOL" -> "bol"
      [] w = ".PDF" -> ".pdf"
      [] OTHER -> w

Lower(name) == [i \in DOMAIN name |-> LowerToken(name[i])]

\* str.endswith(ext) for an extension
EndsWith(name, ext) == name # <<>> /\ name[Len(name)] = ext

\* content_type.startswith("text/") and content_type.startswith("image/")
StartsWithText(ct) == ct \in {"text/plain", "text/csv", "text/html"}
StartsWithImage(ct) ==
    ct \in {"image/png", "image/jpeg", "image/webp", "image/gif", "image/bmp"}

\* content.decode("utf-8", errors="replace"): no text, white space only, or text
\* with something in it (bytes that are no UTF-8 become replacement characters).
Decode(body) ==
    CASE body = "empty" -> "empty"
      [] body = "spaces" -> "blank"
      [] OTHER -> "text"

\* pdfplumber on the bytes: the joined page texts and table rows, or "error"
\* for bytes it cannot read as a PDF.
PdfText(body) ==
    CASE body = "pdf-text" -> "text"
      [] body = "pdf-scan" -> "empty"
      [] OTHER -> "error"

TooLargeNever(size) == FALSE

\* len(content) > MAX_FILE_SIZE
TooLarge(size) == size > MAX_FILE_SIZE

\* What the model may answer to the transcription call and to the parsing call:
\* client.messages.create raises anthropic.APIError or returns a text.
VisionReplies == {"APIError", "text"}

Bare == <<"{", "k", "}">>
Replies ==
    {Bare,
     <<Fence, "x", NL>> \o Bare \o <<NL, Fence>>,
     <<"x", " ">> \o Bare \o <<" ", "x">>,
     <<"{", "}">>,
     <<"x">>,
     <<"{", "x", "}">>,
     <<"1">>,
     <<"{", "b", "}">>}
ApiReplies == {<<"APIError">>} \cup Replies

(***************************************************************************)
(* A request in progress is a record; each function of a handler takes it  *)
(* on and leaves it alone once a status is set (an exception was raised).  *)
(* Status 500 is an exception no handler catches.                          *)
(***************************************************************************)
NoRequest ==
    [pc |-> "idle", route |-> "", upload |-> FALSE, valid |-> FALSE, auth |-> "",
     key |-> "", status |-> 0, oversize |-> FALSE, supported |-> FALSE,
     admitted |-> FALSE, ownfull |-> FALSE, decoded |-> FALSE, pdf |-> FALSE,
     calls |-> 0, nokey |-> FALSE, text |-> "none", data |-> "none",
     store |-> EmptyStore, cache |-> "empty"]

RaiseRollingBack(r, status) ==
    [r EXCEPT !.status = status, !.pc = "done",
              !.store = IF r.admitted
                        THEN Put(r.store, r.auth,
                                 SubSeq(r.store[r.auth], 1, Len(r.store[r.auth]) - 1))
                        ELSE @]

Raise(r, status) == [r EXCEPT !.status = status, !.pc = "done"]

\* What the request presents: the proxy-secret header equal to the configured
\* non-empty secret, or an X-API-Key of the configured allow-set.
PresentsCredential(secret, api_key) ==
    \/ RAPIDAPI_SECRET # "" /\ secret = RAPIDAPI_SECRET
    \/ api_key \in INTERNAL_API_KEYS

\* Depends(verify_api_key), and for a text route the validation of the body.
\* Of an uploaded file the request keeps whether it is over the size ceiling
\* and whether its declared type is one of SUPPORTED_MIME_TYPES.
Arrived(route, secret, api_key, length, oversize, supported) ==
    LET auth == verify_api_key(secret, api_key)
        r == [NoRequest EXCEPT !.route = route, !.upload = route \in UploadRoutes,
                               !.valid = PresentsCredential(secret, api_key),
                               !.oversize = oversize, !.supported = supported,
                               !.pc = "authed"]
        a == [r EXCEPT !.auth = auth,
                       !.key = IF auth = "direct" THEN api_key ELSE ""]
    IN  IF auth = "401" THEN Raise(r, 401)
        ELSE IF route \in TextRoutes /\ ~BodyValid(length) THEN Raise(a, 422)
        ELSE a

\* check_rate_limit(auth) at time now on the table r.store
Limit(r, now) ==
    IF RateStatus(r.store, r.auth, now) = 429
    THEN Raise([r EXCEPT !.store = RateStoreAfter(r.store, r.auth, now)], 429)
    ELSE [r EXCEPT !.store = RateStoreAfter(r.store, r.auth, now),
                   !.admitted = TRUE]

\* extract_text_from_upload(file), after file.read()
Extract(r, file, env, vision) ==
    LET ct == file.content_type
        name == Lower(file.filename)
        f == r
    IN  IF r.status # 0 THEN r
        ELSE IF TooLarge(file.size) THEN Raise(f, 413)
        ELSE IF StartsWithText(ct) \/ EndsWith(name, ".txt")
             THEN [f EXCEPT !.decoded = TRUE, !.text = Decode(file.body)]
        ELSE IF ct = "application/pdf" \/ EndsWith(name, ".pdf")
             THEN IF PdfText(file.body) = "text"
                  THEN [f EXCEPT !.pdf = TRUE, !.text = "text"]
                  ELSE Raise([f EXCEPT !.pdf = TRUE], 422)
        ELSE IF StartsWithImage(ct)
             THEN IF ~ClientBuilt(f.cache, env)
                  THEN Raise([f EXCEPT !.nokey = TRUE], 500)
                  ELSE IF vision = "APIError"
                       THEN Raise([f EXCEPT !.cache = "client", !.calls = @ + 1], 502)
                       ELSE [f EXCEPT !.cache = "client", !.calls = @ + 1,
                                      !.text = vision]
        ELSE Raise(f, 415)

\* BOLResponse(**data), FreightInvoiceResponse(**data), PackingListResponse(**data):
\* data must be a mapping and every member present must have the shape of its
\* field; a TypeError or a pydantic ValidationError is caught by nobody.
Validate(data) ==
    IF data.type = "object" /\ \A i \in DOMAIN data.members : data.members[i] = "k"
    THEN 200 ELSE 500

ParseTwice(r, env, api) == Raise([r EXCEPT !.calls = @ + 2], 502)

\* parse_document(...) and the construction of the response model
Parse(r, env, api) ==
    LET out == Normalize(api)
        c == [r EXCEPT !.cache = "client", !.calls = @ + 1]
    IN  IF r.status # 0 THEN r
        ELSE IF ~ClientBuilt(r.cache, env) THEN Raise([r EXCEPT !.nokey = TRUE], 503)
        ELSE IF api = <<"APIError">> THEN Raise(c, 502)
        ELSE IF out.kind = "HTTPException" THEN Raise(c, out.status)
        ELSE IF out.kind = "JSONDecodeError" THEN Raise(c, 500)
        ELSE Raise([c EXCEPT !.data = IF Validate(out) = 200 THEN "record"
                                      ELSE "mismatch"],
                   Validate(out))

(***************************************************************************)
(* SpecRate: check_rate_limit called on the table, any key at any time.    *)
(***************************************************************************)
TotalCalls == ncalls["rapidapi"] + ncalls["direct"]

ServerUnused ==
    /\ RAPIDAPI_SECRET = ""
    /\ INTERNAL_API_KEYS = {}
    /\ ANTHROPIC_API_KEY = ""
    /\ client_cache = "empty"
    /\ clients = NoClients
    /\ req = NoRequest
    /\ fresh = <<>>
    /\ reqs = <<>>

NormUnused ==
    /\ doc = [form |-> "none"]
    /\ raw = <<>>
    /\ result = [kind |-> "none"]

RateUnused ==
    /\ call = NoCall
    /\ admitted = [k \in Identities |-> <<>>]
    /\ ncalls = [k \in Identities |-> 0]

RateInit ==
    /\ RATE_LIMIT \in RateLimitValues
    /\ RATE_WINDOW \in RateWindowValues
    /\ rate_store = EmptyStore
    /\ clock = 0
    /\ RateUnused
    /\ ServerUnused
    /\ NormUnused

check_rate_limit(key) ==
    /\ TotalCalls < MaxCalls
    /\ rate_store' = RateStoreAfter(rate_store, key, clock)
    /\ call' = [key |-> key, now |-> clock, before |-> admitted[key],
                status |-> RateStatus(rate_store, key, clock)]
    /\ admitted' = IF RateStatus(rate_store, key, clock) = 0
                   THEN [admitted EXCEPT ![key] = Append(@, clock)]
                   ELSE admitted
    /\ ncalls' = [ncalls EXCEPT ![key] = @ + 1]
    /\ UNCHANGED <<config, ANTHROPIC_API_KEY, clients, client_cache, clock, req, fresh,
                   reqs, doc, raw, result>>

RateTick ==
    /\ Tick(MaxTime)
    /\ UNCHANGED <<config, ANTHROPIC_API_KEY, clients, rate_store, client_cache, call,
                   admitted, ncalls, req, fresh, reqs, doc, raw, result>>

RateNext ==
    \/ \E key \in Identities : check_rate_limit(key)
    \/ RateTick

SpecRate == RateInit /\ [][RateNext]_vars

\* The admitted calls of a key that are still inside the window at time now.
InWindow(log, now) == {i \in DOMAIN log : now - log[i] < RATE_WINDOW}

\* C1: from an empty table the first RATE_LIMIT calls of a key are all admitted;
\* a call that finds RATE_LIMIT admitted calls of its key inside the window is
\* rejected with 429; a call that finds every admitted call of its key outside
\* the window is admitted again, whatever was rejected in between.
RateLimitContract ==
    /\ \A k \in Identities :
          ncalls[k] <= RATE_LIMIT => Len(admitted[k]) = ncalls[k]
    /\ call.key # "" =>
          /\ Cardinality(InWindow(call.before, call.now)) >= RATE_LIMIT
                => call.status = 429
          /\ (call.before # <<>> /\ InWindow(call.before, call.now) = {})
                => call.status = 0

\* C1 witness: a key used up its ceiling, had a call rejected, and after the
\* window had passed was admitted again.
RateLimitWitness ==
    /\ call.key # ""
    /\ call.status = 0
    /\ Len(call.before) = RATE_LIMIT
    /\ InWindow(call.before, call.now) = {}
    /\ ncalls[call.key] > Len(admitted[call.key])

(***************************************************************************)
(* SpecAnyClock: check_rate_limit called on the table while time.time(),   *)
(* the wall clock, is set forward and back between the calls.              *)
(***************************************************************************)
SetClock ==
    /\ clock' \in (0..MaxTime) \ {clock}
    /\ UNCHANGED <<config, ANTHROPIC_API_KEY, clients, rate_store, client_cache,
                   call, admitted, ncalls, req, fresh, reqs, doc, raw, result>>

AnyClockNext ==
    \/ \E key \in Identities : check_rate_limit(key)
    \/ SetClock

SpecAnyClock == RateInit /\ [][AnyClockNext]_vars

Max(a, b) == IF a >= b THEN a ELSE b

\* C15: after any calls of check_rate_limit, whatever the keys and the clock
\* values, the list of every key holds at most max(0, RATE_LIMIT) timestamps,
\* and a rejected call leaves in the list what the pruning left, with nothing
\* appended.
ListsWithinCeiling ==
    [][/\ \A k \in DOMAIN rate_store' :
             Len(rate_store'[k]) <= Max(0, RATE_LIMIT)
       /\ (ncalls' # ncalls /\ call'.status = 429) =>
             rate_store'[call'.key] = Pruned(Hits(rate_store, call'.key), clock)]_vars

\* C15 witness: the clock was set back behind a timestamp of the list, and a
\* call at that time found the list full and was rejected.
ListsWithinCeilingWitness ==
    /\ call.key # ""
    /\ call.status = 429
    /\ call.now = clock
    /\ RATE_LIMIT > 0
    /\ Len(rate_store[call.key]) = RATE_LIMIT
    /\ \E i \in DOMAIN rate_store[call.key] : rate_store[call.key][i] > clock

(***************************************************************************)
(* Spec: the six parse routes, one request at a time.  A request arrives,  *)
(* verify_api_key and the body validation run, then the handler runs to    *)
(* its response.  req keeps what the request presented and what was done   *)
(* for it until the next request arrives.                                  *)
(***************************************************************************)
Credentials == {"rapidapi"} \cup (KeyHeaders \ {""})

\* The credential a request was authenticated with.
Credential(r) == IF r.auth = "direct" THEN r.key ELSE "rapidapi"

Init ==
    /\ RATE_LIMIT \in 1..ServerLimit
    /\ RATE_WINDOW = ServerWindow
    /\ RAPIDAPI_SECRET \in {"", "s3cret"}
    /\ INTERNAL_API_KEYS = {"key-a", "key-b"}
    /\ ANTHROPIC_API_KEY \in {"", "sk-ant"}
    /\ rate_store = EmptyStore
    /\ client_cache = "empty"
    /\ clients = NoClients
    /\ clock = 0
    /\ req = NoRequest
    /\ fresh = [c \in Credentials |-> <<>>]
    /\ reqs = <<>>
    /\ RateUnused
    /\ NormUnused

\* A function of the handler starts on the shared table and client cache.
Started(r) == [r EXCEPT !.store = rate_store, !.cache = client_cache]

\* It has ended: the table and the cache are the shared ones again.  Of a
\* request answered only the kind of its route is kept.
Finish(r) ==
    /\ req' = [r EXCEPT !.store = EmptyStore, !.cache = "empty",
                        !.route = IF r.pc = "done" THEN "" ELSE @]
    /\ rate_store' = r.store
    /\ client_cache' = r.cache
    /\ UNCHANGED <<config, ANTHROPIC_API_KEY, clients, clock, call, admitted, ncalls,
                   reqs, doc, raw, result>>

\* The files a request that arrived with these facts may carry.
FilesOf(r) ==
    {f \in Files : /\ (f.size > MAX_FILE_SIZE) = r.oversize
                   /\ (f.content_type \in SUPPORTED_MIME_TYPES) = r.supported}

\* The requests that may arrive, as verify_api_key and the body validation
\* leave them.
Arrivals ==
    UNION {{Arrived(route, secret, api_key, length, oversize, supported) :
               length \in IF route \in TextRoutes THEN TextLengths ELSE {0},
               oversize \in IF route \in UploadRoutes THEN BOOLEAN ELSE {FALSE},
               supported \in IF route \in UploadRoutes THEN BOOLEAN ELSE {FALSE}} :
           route \in TextRoutes \cup UploadRoutes, secret \in SecretHeaders,
           api_key \in KeyHeaders}

Receive ==
    /\ req.pc \in {"idle", "done"}
    /\ \E r \in Arrivals : Finish(Started(r))
    /\ UNCHANGED fresh

\* check_rate_limit(auth), with the history of the credential's admissions
Limited(r) ==
    LET l == Limit([r EXCEPT !.ownfull = Len(fresh[Credential(r)]) >= RATE_LIMIT],
                   clock)
    IN  IF l.status = 0 THEN [l EXCEPT !.pc = "parsing"] ELSE l

Admit(r) ==
    fresh' = IF r.admitted
             THEN [fresh EXCEPT ![Credential(r)] = Append(@, clock)]
             ELSE fresh

\* check_rate_limit(auth); parse_document(...) follows
TextHandler(route) ==
    /\ req.pc = "authed"
    /\ req.route = route
    /\ LET l == Limited(Started(req))
       IN  Finish([l EXCEPT !.text = IF l.status = 0 THEN "text" ELSE @]) /\ Admit(l)

\* check_rate_limit(auth); text = await extract_text_from_upload(file);
\* parse_document(...) follows
UploadHandler(route) ==
    /\ req.pc = "authed"
    /\ req.route = route
    /\ LET l == Limited(Started(req))
       IN  /\ Admit(l)
           /\ IF l.status # 0 THEN Finish(l)
              ELSE \E file \in FilesOf(req) :
                      \E v \in IF StartsWithImage(file.content_type)
                               THEN VisionReplies ELSE {"text"} :
                         Finish(Extract(l, file, ANTHROPIC_API_KEY, v))

parse_bol == TextHandler("/parse-bol")
parse_freight_invoice == TextHandler("/parse-freight-invoice")
parse_packing_list == TextHandler("/parse-packing-list")
parse_bol_upload == UploadHandler("/parse-bol/upload")
parse_freight_invoice_upload == UploadHandler("/parse-freight-invoice/upload")
parse_packing_list_upload == UploadHandler("/parse-packing-list/upload")

\* data = parse_document(...); return Response(**data)
parse_document ==
    /\ req.pc = "parsing"
    /\ req.status = 0
    /\ \E api \in ApiReplies : Finish(Parse(Started(req), ANTHROPIC_API_KEY, api))
    /\ UNCHANGED fresh

\* Time passes; the admissions that left the window are dropped from the history.
SpecTick ==
    /\ Tick(ServerTime)
    /\ fresh' = [c \in DOMAIN fresh |-> Pruned(fresh[c], clock')]
    /\ UNCHANGED <<config, ANTHROPIC_API_KEY, clients, rate_store, client_cache, call,
                   admitted, ncalls, req, reqs, doc, raw, result>>

Next ==
    \/ Receive
    \/ parse_bol
    \/ parse_freight_invoice
    \/ parse_packing_list
    \/ parse_bol_upload
    \/ parse_freight_invoice_upload
    \/ parse_packing_list_upload
    \/ parse_document
    \/ SpecTick

Spec == Init /\ [][Next]_vars

\* C2: on each of the six routes a request that presents neither the configured
\* non-empty proxy secret nor an X-API-Key of the allow-set ends at once with
\* 401; the rate-limit table is left as it was, check_rate_limit is not called
\* and no model call is made for it.
NoCredentialEndsWith401 ==
    [][(req' # req /\ ~req'.valid) =>
          /\ req'.pc = "done"
          /\ req'.status = 401
          /\ ~req'.admitted
          /\ req'.calls = 0
          /\ rate_store' = rate_store
          /\ client_cache' = client_cache]_vars

\* C2 witness: an upload request without credentials was answered 401 while the
\* table held the timestamps of other requests.
NoCredentialWitness ==
    /\ req.pc = "done"
    /\ req.upload
    /\ ~req.valid
    /\ req.status = 401
    /\ rate_store # EmptyStore

\* C3 as stated: an authenticated upload over the size ceiling is answered 413,
\* whatever the state of the rate-limit table.
OversizeAlways413 ==
    (req.pc \in {"parsing", "done"} /\ req.upload /\ req.valid /\ req.oversize)
        => req.status = 413

\* C3 amended: an authenticated upload over the size ceiling is answered 413
\* when check_rate_limit admits it and 429 when it does not; in both cases
\* nothing is decoded, no PDF is opened and no model call is made.
OversizeIs413UnlessLimited ==
    (req.pc \in {"parsing", "done"} /\ req.upload /\ req.valid /\ req.oversize)
        => /\ req.pc = "done"
           /\ req.status = IF req.admitted THEN 413 ELSE 429
           /\ ~req.decoded
           /\ ~req.pdf
           /\ req.calls = 0

\* C3 witness: an admitted upload over the ceiling was answered 413.
OversizeWitness ==
    /\ req.pc = "done"
    /\ req.upload
    /\ req.oversize
    /\ req.admitted
    /\ req.status = 413

\* C6: a request that needs the model client while the backend credential is
\* missing ends with 503.
MissingCredentialIs503 == req.nokey => req.status = 503

\* C7: an admitted upload within the size ceiling whose declared content type
\* is not in SUPPORTED_MIME_TYPES is answered 415 and is neither decoded nor
\* opened as a PDF nor sent to the model.
UnsupportedTypeIs415 ==
    (/\ req.pc \in {"parsing", "done"}
     /\ req.upload /\ req.admitted /\ ~req.oversize /\ ~req.supported)
        => /\ req.status = 415
           /\ ~req.decoded
           /\ ~req.pdf
           /\ req.calls = 0

\* C8: for a supported content type and a payload within the ceiling the text
\* extract_text_from_upload returns is never empty or white space only.
ExtractedTextNotEmpty ==
    (req.upload /\ req.supported /\ ~req.oversize /\ req.text # "none")
        => req.text = "text"

\* C9: a request authenticated with a direct API key is answered 429 only when
\* the admissions of that same key fill the ceiling within the window.
DirectKeysCountedApart ==
    (req.pc = "done" /\ req.status = 429 /\ req.auth = "direct") => req.ownfull

\* C11: when the recovered JSON is not an object, or has a member whose shape
\* does not fit the response model, the request ends with the validation error
\* of the taxonomy, status 422.
ShapeMismatchIs422 == req.data = "mismatch" => req.status = 422

\* The transcription call of the image branch was issued for the request: it is
\* the only way an upload gets to a model call with nothing decoded or opened.
VisionCalls(r) ==
    IF r.upload /\ ~r.decoded /\ ~r.pdf /\ r.calls > 0 THEN 1 ELSE 0

\* The calls parse_document issued for the request.
ParseCalls(r) == r.calls - VisionCalls(r)

\* C13: nothing is retried within a request: one step of a handler issues at
\* most one model call, the parsing call is issued at most once, a request whose
\* model call failed or whose reply could not be recovered is over at once, and
\* nothing more is issued for a request that is over.
NoInternalRetry ==
    [][req' # req =>
          /\ ParseCalls(req') <= 1
          /\ req.pc \in {"authed", "parsing"} => req'.calls <= req.calls + 1
          /\ req'.status \in {500, 502, 503} => req'.pc = "done"
          /\ req.pc = "done" => req'.calls = 0]_vars

\* C13 witness: the transcription call of an upload failed and the request was
\* over with 502 after that one call.
NoInternalRetryWitness ==
    /\ req.pc = "done"
    /\ req.status = 502
    /\ req.upload
    /\ VisionCalls(req) = 1
    /\ req.calls = 1

\* The admissions of an identity that are inside the window, at timestamp t:
\* those of the proxy, or those of all direct keys.
Admissions(identity, t) ==
    IF identity = "rapidapi" THEN Count(fresh["rapidapi"], t)
    ELSE Count(fresh["key-a"], t) + Count(fresh["key-b"], t)
         + Count(fresh["key-x"], t)

\* C16: the timestamp of an admitted request is in the table before anything is
\* extracted or sent to the model and stays there while it is inside the
\* window, whatever the request ends with (413, 415, 422, 502, 503 or an
\* unhandled exception); a request answered 429 was not admitted and nothing
\* was decoded, opened or sent to the model for it.
AdmissionNeverRolledBack ==
    /\ \A a \in Identities : \A t \in 0..clock :
          Fresh(t, clock) => Count(Hits(rate_store, a), t) = Admissions(a, t)
    /\ (\/ req.decoded \/ req.pdf \/ req.calls > 0 \/ req.nokey
        \/ req.text # "none" \/ req.status \in {413, 415}) => req.admitted
    /\ req.status = 429 =>
          /\ ~req.admitted
          /\ ~req.decoded /\ ~req.pdf /\ ~req.nokey
          /\ req.calls = 0
          /\ req.text = "none"

\* C16 witness: an admitted request failed after the rate limiter, and its
\* timestamp is what fills the ceiling of its identity.
AdmissionWitness ==
    /\ req.pc = "done"
    /\ req.admitted
    /\ req.status \in {413, 415, 422, 502, 503}
    /\ Count(Hits(rate_store, req.auth), clock) = 1
    /\ Len(Hits(rate_store, req.auth)) = RATE_LIMIT

(***************************************************************************)
(* SpecConc: requests handled concurrently.  The handlers are coroutines   *)
(* (async def) on one event loop: a request runs until it awaits, and only *)
(* then does another request run.  check_rate_limit is a plain function    *)
(* without await; here it is taken apart into its statements so that the   *)
(* scheduling, and not the model, is what keeps them together.             *)
(***************************************************************************)
Slots == 1..MaxInFlight

NoSlot == [pc |-> "idle", key |-> "", upload |-> FALSE, now |-> 0,
           kept |-> <<>>, status |-> 0]

SuspendedAnywhere(pc) == TRUE

\* The positions at which a coroutine has given the event loop back: before
\* the handler is entered (dependencies and body are awaited), at
\* await file.read() in extract_text_from_upload, and after its response.
Suspended(pc) == pc \in {"idle", "authed", "reading", "done"}

\* The event loop runs request i: every other request is suspended.
Scheduled(i) == \A j \in Slots \ {i} : Suspended(reqs[j].pc)

ConcUnchanged ==
    UNCHANGED <<config, ANTHROPIC_API_KEY, clients, client_cache, call, ncalls, req,
                fresh, doc, raw, result>>

ConcInit ==
    /\ RATE_LIMIT \in 0..ServerLimit
    /\ RATE_WINDOW \in 1..ServerWindow
    /\ RAPIDAPI_SECRET = ""
    /\ INTERNAL_API_KEYS = {}
    /\ ANTHROPIC_API_KEY = ""
    /\ rate_store = EmptyStore
    /\ client_cache = "empty"
    /\ clients = NoClients
    /\ clock = 0
    /\ req = NoRequest
    /\ fresh = <<>>
    /\ reqs = [i \in Slots |-> NoSlot]
    /\ RateUnused
    /\ NormUnused

\* A request arrives and verify_api_key returns its identity.
Accept(i) ==
    /\ reqs[i].pc \in {"idle", "done"}
    /\ Scheduled(i)
    /\ \E key \in Identities, upload \in BOOLEAN :
          reqs' = [reqs EXCEPT ![i] = [NoSlot EXCEPT !.pc = "authed",
                                                     !.key = key,
                                                     !.upload = upload]]
    /\ UNCHANGED <<rate_store, clock, admitted>>
    /\ ConcUnchanged

\* now = time.time(); hits = rate_store.setdefault(key, []); the list
\* comprehension over hits is evaluated.
ReadHits(i) ==
    /\ reqs[i].pc = "authed"
    /\ Scheduled(i)
    /\ rate_store' = Put(rate_store, reqs[i].key, Hits(rate_store, reqs[i].key))
    /\ reqs' = [reqs EXCEPT ![i].pc = "read",
                            ![i].now = clock,
                            ![i].kept = Pruned(Hits(rate_store, reqs[i].key), clock)]
    /\ UNCHANGED <<clock, admitted>>
    /\ ConcUnchanged

\* hits[:] = the list just computed
WriteHits(i) ==
    /\ reqs[i].pc = "read"
    /\ Scheduled(i)
    /\ rate_store' = Put(rate_store, reqs[i].key, reqs[i].kept)
    /\ reqs' = [reqs EXCEPT ![i].pc = "pruned", ![i].kept = <<>>]
    /\ UNCHANGED <<clock, admitted>>
    /\ ConcUnchanged

\* if len(hits) >= RATE_LIMIT: raise HTTPException(429)
CheckHits(i) ==
    /\ reqs[i].pc = "pruned"
    /\ Scheduled(i)
    /\ reqs' = IF AtCeiling(Hits(rate_store, reqs[i].key))
               THEN [reqs EXCEPT ![i] = [NoSlot EXCEPT !.pc = "done",
                                                       !.key = reqs[i].key,
                                                       !.status = 429]]
               ELSE [reqs EXCEPT ![i].pc = "checked"]
    /\ UNCHANGED <<rate_store, clock, admitted>>
    /\ ConcUnchanged

\* hits.append(now); a text route then runs to its response without await, an
\* upload route awaits file.read().
AppendHit(i) ==
    /\ reqs[i].pc = "checked"
    /\ Scheduled(i)
    /\ rate_store' = Put(rate_store, reqs[i].key,
                         Append(Hits(rate_store, reqs[i].key), reqs[i].now))
    /\ admitted' = [admitted EXCEPT ![reqs[i].key] = Append(@, reqs[i].now)]
    /\ reqs' = [reqs EXCEPT ![i] =
                   [NoSlot EXCEPT !.pc = IF reqs[i].upload THEN "reading" ELSE "done",
                                  !.key = reqs[i].key]]
    /\ UNCHANGED clock
    /\ ConcUnchanged

\* file.read() returns; extraction and parse_document run to the response.
Resume(i) ==
    /\ reqs[i].pc = "reading"
    /\ Scheduled(i)
    /\ reqs' = [reqs EXCEPT ![i].pc = "done"]
    /\ UNCHANGED <<rate_store, clock, admitted>>
    /\ ConcUnchanged

ConcTick ==
    /\ Tick(ServerTime)
    /\ UNCHANGED <<rate_store, admitted, reqs>>
    /\ ConcUnchanged

ConcNext ==
    \/ \E i \in Slots : Accept(i)
    \/ \E i \in Slots : ReadHits(i)
    \/ \E i \in Slots : WriteHits(i)
    \/ \E i \in Slots : CheckHits(i)
    \/ \E i \in Slots : AppendHit(i)
    \/ \E i \in Slots : Resume(i)
    \/ ConcTick

SpecConc == ConcInit /\ [][ConcNext]_vars

\* C10: under every interleaving of concurrently handled requests, for each
\* key every admitted timestamp that is still inside the window is in the
\* table exactly as often as it was admitted (no update is lost), and the
\* admissions of the key inside any one window never exceed RATE_LIMIT.
NoLostUpdate ==
    \A k \in Identities :
        /\ \A t \in 0..clock :
              Fresh(t, clock)
                  => Count(Hits(rate_store, k), t) = Count(admitted[k], t)
        /\ \A u \in 0..clock :
              Cardinality({i \in DOMAIN admitted[k] :
                              admitted[k][i] <= u /\ Fresh(admitted[k][i], u)})
                  <= RATE_LIMIT

\* C10 witness: while an admitted upload of a key is suspended in
\* await file.read(), another request of the same key found the ceiling
\* reached and was answered 429.
NoLostUpdateWitness ==
    \E i, j \in Slots :
        /\ i # j
        /\ reqs[i].pc = "reading"
        /\ reqs[j].pc = "done"
        /\ reqs[j].status = 429
        /\ reqs[i].key = reqs[j].key
        /\ Len(Hits(rate_store, reqs[i].key)) = RATE_LIMIT
        /\ RATE_LIMIT > 0

(***************************************************************************)
(* SpecNorm: parse_document on the reply texts of the model.  A reply is   *)
(* any short text, or a JSON object put bare, between fences, or into      *)
(* prose.                                                                  *)
(***************************************************************************)
Texts(alphabet, n) == UNION {[1..m -> alphabet] : m \in 0..n}

\* The text of the object with the members ms, on one line or a token a line.
ObjectText(ms, layout) ==
    LET inner == [i \in 1..(2 * Len(ms) - 1) |->
                     IF i % 2 = 1 THEN ms[(i + 1) \div 2] ELSE ","]
        tokens == <<"{">> \o (IF ms = <<>> THEN <<>> ELSE inner) \o <<"}">>
    IN  IF layout = "line" THEN tokens
        ELSE Join([i \in 1..Len(tokens) |-> <<tokens[i]>>])

Prose == Alphabet \ {Fence}

Docs ==
    [form : {"bare"}, members : Texts(Members, MaxMembers),
     layout : {"line", "lines"}, pre : Texts(White, 1), post : Texts(White, 1)]
    \cup
    [form : {"fenced"}, members : Texts(Members, MaxMembers),
     layout : {"line", "lines"}, pre : {<<>>, <<"x">>}, post : Texts(White, 1)]
    \cup
    [form : {"prose"}, members : Texts(Members, MaxMembers),
     layout : {"line", "lines"}, pre : Texts(Prose, MaxProse),
     post : Texts(Prose, MaxProse)]

Json(d) == ObjectText(d.members, d.layout)

\* The reply text of a document: for a fenced one pre is the language tag
\* after the opening fence.
ReplyText(d) ==
    IF d.form = "fenced"
    THEN <<Fence>> \o d.pre \o <<NL>> \o Json(d) \o <<NL, Fence>> \o d.post
    ELSE d.pre \o Json(d) \o d.post

RateIdle ==
    /\ RATE_LIMIT = 0
    /\ RATE_WINDOW = 0
    /\ rate_store = EmptyStore
    /\ clock = 0
    /\ RateUnused

NormInit ==
    /\ \/ /\ doc = [form |-> "free"]
          /\ raw \in Texts(Alphabet, MaxRaw)
       \/ /\ doc \in Docs
          /\ raw = ReplyText(doc)
    /\ result = [kind |-> "none"]
    /\ RateIdle
    /\ ServerUnused

\* raw = call_claude(...) has returned; the rest of parse_document runs.
NormalizeReply ==
    /\ result.kind = "none"
    /\ result' = Normalize(raw)
    /\ UNCHANGED <<config, ANTHROPIC_API_KEY, clients, rate_store, client_cache, clock,
                   call, admitted, ncalls, req, fresh, reqs, doc, raw>>

NormNext == NormalizeReply

SpecNorm == NormInit /\ [][NormNext]_vars

\* The reply cannot be recovered as JSON: the cleaned text does not parse, and
\* the text from its first "{" to its last "}" is missing or does not parse.
Unrecoverable(text) ==
    LET c == Cleaned(text)
        opens == {i \in DOMAIN c : c[i] = "{"}
        closes == {i \in DOMAIN c : c[i] = "}"}
    IN  /\ JsonLoads(c).kind # "data"
        /\ \/ opens = {}
           \/ closes = {}
           \/ \A i \in opens, j \in closes :
                 (\A n \in opens : i <= n) /\ (\A n \in closes : n <= j)
                    => (j < i \/ JsonLoads(SubSeq(c, i, j)).kind # "data")

\* C4: a reply that cannot be recovered as JSON makes parse_document fail with
\* the HTTPException of status 502 and with no other exception.
UnrecoverableIs502 ==
    (result.kind # "none" /\ Unrecoverable(raw)) => result = HTTP502

BraceFree(s) == \A i \in DOMAIN s : s[i] \notin {"{", "}"}

BOLParty == [name |-> "None", address |-> "None", contact |-> "None"]

BOLContainer ==
    [number |-> "None", size |-> "None", type |-> "None",
     seal_number |-> "None", weight_kg |-> "None"]

BOLResponse ==
    [bol_number |-> "None", booking_number |-> "None", shipper |-> "None",
     consignee |-> "None", notify_party |-> "None", carrier |-> "None",
     vessel_name |-> "None", voyage_number |-> "None",
     port_of_loading |-> "None", port_of_discharge |-> "None",
     place_of_delivery |-> "None", date_of_issue |-> "None",
     shipped_on_board_date |-> "None", containers |-> "[]",
     commodity_description |-> "None", gross_weight_kg |-> "None",
     number_of_packages |-> "None", package_type |-> "None",
     freight_terms |-> "None", hs_codes |-> "[]", confidence |-> "0.0",
     warnings |-> "[]"]

InvoiceLineItem ==
    [description |-> "required", charge_type |-> "None", amount |-> "None",
     currency |-> "None", reference |-> "None"]

FreightInvoiceResponse ==
    [invoice_number |-> "None", invoice_date |-> "None", due_date |-> "None",
     vendor_name |-> "None", vendor_address |-> "None",
     bill_to_name |-> "None", bill_to_address |-> "None",
     bol_references |-> "[]", container_references |-> "[]",
     po_references |-> "[]", line_items |-> "[]", subtotal |-> "None",
     tax |-> "None", total |-> "None", currency |-> "None",
     payment_terms |-> "None", charge_breakdown |-> "None",
     confidence |-> "0.0", warnings |-> "[]"]

PackingListItem ==
    [item_number |-> "None", description |-> "required", quantity |-> "None",
     unit |-> "None", net_weight_kg |-> "None", gross_weight_kg |-> "None",
     dimensions |-> "None", hs_code |-> "None", country_of_origin |-> "None",
     carton_numbers |-> "None"]

PackingListResponse ==
    [packing_list_number |-> "None", date |-> "None", shipper |-> "None",
     consignee |-> "None", po_references |-> "[]",
     invoice_references |-> "[]", items |-> "[]", total_packages |-> "None",
     total_gross_weight_kg |-> "None", total_net_weight_kg |-> "None",
     total_volume_cbm |-> "None", confidence |-> "0.0", warnings |-> "[]"]

Kinds == {"bol", "freight_invoice", "packing_list"}

ResponseModel(kind) ==
    CASE kind = "bol" -> BOLResponse
      [] kind = "freight_invoice" -> FreightInvoiceResponse
      [] OTHER -> PackingListResponse

\* The fields whose type is another model, or a list of one.
SubModels(kind) ==
    CASE kind = "bol" ->
            [shipper |-> BOLParty, consignee |-> BOLParty,
             notify_party |-> BOLParty, containers |-> BOLContainer]
      [] kind = "freight_invoice" -> [line_items |-> InvoiceLineItem]
      [] OTHER -> [items |-> PackingListItem]

Paths(kind) ==
    {<<f>> : f \in DOMAIN ResponseModel(kind)}
    \cup UNION {{<<f, g>> : g \in DOMAIN SubModels(kind)[f]} :
                   f \in DOMAIN SubModels(kind)}

Declared(kind, p) ==
    IF Len(p) = 1 THEN ResponseModel(kind)[p[1]] ELSE SubModels(kind)[p[1]][p[2]]

\* The field of the path is looked at: a field of a nested record is, when the
\* object holds that record.
Reached(absent, p) == Len(p) = 1 \/ <<p[1]>> \notin absent

\* The response model built from the object that leaves out the paths absent:
\* a field left out takes its default, a required one left out raises
\* pydantic's ValidationError.
Construct(kind, absent) ==
    LET reached == {p \in Paths(kind) : Reached(absent, p)}
    IN  IF \E p \in reached \cap absent : Declared(kind, p) = "required"
        THEN [kind |-> "ValidationError"]
        ELSE [kind |-> "record",
              value |-> [p \in reached |->
                            IF p \in absent THEN Declared(kind, p) ELSE "value"]]

RECURSIVE SubsetsUpTo(_, _)
SubsetsUpTo(S, n) ==
    IF n = 0 THEN {{}}
    ELSE LET less == SubsetsUpTo(S, n - 1)
         IN  less \cup {T \cup {x} : T \in less, x \in S}

\* The objects: up to MaxAbsent fields left out anywhere, or the empty object.
Objects ==
    UNION {{[form |-> "object", kind |-> kind, absent |-> a] :
               a \in SubsetsUpTo(Paths(kind), MaxAbsent)
                     \cup {{<<f>> : f \in DOMAIN ResponseModel(kind)}}} :
           kind \in Kinds}

BindInit ==
    /\ doc \in Objects
    /\ raw = <<>>
    /\ result = [kind |-> "none"]
    /\ RateIdle
    /\ ServerUnused

\* return BOLResponse(**data) and its two likes
BuildResponse ==
    /\ result.kind = "none"
    /\ result' = Construct(doc.kind, doc.absent)
    /\ UNCHANGED <<config, ANTHROPIC_API_KEY, clients, rate_store, client_cache, clock,
                   call, admitted, ncalls, req, fresh, reqs, doc, raw>>

BindNext == BuildResponse

SpecBind == BindInit /\ [][BindNext]_vars

\* C12: for the three document kinds every field the object leaves out, at the
\* top level or in a nested record, is populated with its declared default, and
\* leaving it out never makes the construction raise.
AbsentFieldsTakeDefaults ==
    result.kind # "none"
        => /\ result.kind = "record"
           /\ \A p \in doc.absent :
                 Reached(doc.absent, p) => result.value[p] = Declared(doc.kind, p)

(***************************************************************************)
(* SpecClient: get_client behind lru_cache, called any number of times     *)
(* while ANTHROPIC_API_KEY is set and unset in the environment.            *)
(***************************************************************************)
ClientInit ==
    /\ ANTHROPIC_API_KEY \in {"", "sk-ant"}
    /\ RAPIDAPI_SECRET = ""
    /\ INTERNAL_API_KEYS = {}
    /\ client_cache = "empty"
    /\ clients = NoClients
    /\ req = NoRequest
    /\ fresh = <<>>
    /\ reqs = <<>>
    /\ RateIdle
    /\ NormUnused

ClientUnchanged ==
    UNCHANGED <<config, rate_store, clock, call, admitted, ncalls, req, fresh,
                reqs, doc, raw, result>>

\* get_client(): a cached client is returned as it is; otherwise the key is
\* read from the environment, and the client is built or RuntimeError raised.
get_client ==
    /\ clients.gets < MaxGets
    /\ client_cache' = CacheAfter(client_cache, ANTHROPIC_API_KEY)
    /\ clients' =
          IF client_cache = "client"
          THEN [clients EXCEPT !.gets = @ + 1, !.last = "client"]
          ELSE IF ANTHROPIC_API_KEY # ""
               THEN [clients EXCEPT !.gets = @ + 1, !.built = @ + 1,
                                    !.last = "client"]
               ELSE [clients EXCEPT !.gets = @ + 1, !.failed = @ + 1,
                                    !.last = "RuntimeError"]
    /\ UNCHANGED ANTHROPIC_API_KEY
    /\ ClientUnchanged

\* The environment of the process changes between two calls.
SetEnvironment ==
    /\ ANTHROPIC_API_KEY' \in {"", "sk-ant"} \ {ANTHROPIC_API_KEY}
    /\ UNCHANGED <<client_cache, clients>>
    /\ ClientUnchanged

ClientNext == get_client \/ SetEnvironment

SpecClient == ClientInit /\ [][ClientNext]_vars

\* C14: the client is built at most once; once it is cached every call returns
\* it without building; a call that fails for the missing credential leaves
\* the cache empty, and every call on an empty cache tries again: it fails
\* again without the credential and builds the client with it.
ClientBuiltOnce ==
    [][clients' # clients =>
          /\ clients'.built <= 1
          /\ client_cache = "client" =>
                /\ clients'.last = "client"
                /\ clients'.built = clients.built
                /\ client_cache' = "client"
          /\ clients'.last = "RuntimeError" =>
                /\ ANTHROPIC_API_KEY = ""
                /\ client_cache' = "empty"
          /\ (client_cache = "empty" /\ ANTHROPIC_API_KEY = "") =>
                /\ clients'.last = "RuntimeError"
                /\ clients'.failed = clients.failed + 1
          /\ (client_cache = "empty" /\ ANTHROPIC_API_KEY # "") =>
                /\ clients'.last = "client"
                /\ clients'.built = clients.built + 1
                /\ client_cache' = "client"]_vars

\* C14 witness: calls failed for the missing credential, the credential was
\* set, the client was built, and later calls were served from the cache, also
\* after the credential was taken away again.
ClientBuiltOnceWitness ==
    /\ clients.failed >= 2
    /\ clients.built = 1
    /\ clients.gets >= clients.failed + 3
    /\ clients.last = "client"
    /\ ANTHROPIC_API_KEY = ""

====
